---- MODULE Spec2Model ----
(***************************************************************************)
(* A model of news-spider (src/main.py): the crawl / dedup / filter /      *)
(* notify pipeline of fetch(), the Link table, push_news() and the         *)
(* __main__ driver.                                                        *)
(*                                                                         *)
(* Strings that the code inspects (URLs, hrefs, keywords, tags) are        *)
(* sequences of one-character strings, so that substring tests, strip,     *)
(* format and join are computed as the code computes them.                 *)
(***************************************************************************)
EXTENDS Integers, Sequences, FiniteSets, TLC

VARIABLES
    world,      \* what the outside world can answer (pages, articles, clocks)
    store,      \* rows of the Link table, in insertion order
    runs,       \* number of process invocations started so far
    log,        \* history of the calls made, in order
    pc,         \* per process slot: position in the program
    run,        \* per process slot: number of the invocation it executes
    environ,    \* per process slot: os.environ (the telegram credentials)
    urls,       \* per process slot: cfg["news_spider"]["urls"]
    ui,         \* per process slot: position of __main__'s loop over urls
    links,      \* per process slot: fetch()'s local list links
    li,         \* per process slot: candidates of reversed(links) taken so far
    site_link,  \* per process slot: fetch()'s local site_link
    page,       \* per process slot: fetch()'s local page (the extracted article)
    date_utc_now, \* per process slot: fetch()'s local date_utc_now
    status      \* per process slot: how the last invocation ended

vars == << world, store, runs, log, pc, run, environ, urls, ui, links, li,
           site_link, page, date_utc_now, status >>

----------------------------------------------------------------------------
(* Bounds *)

MaxRuns == 2

Procs == {1, 2}

----------------------------------------------------------------------------
(* Policy numbers of the code *)

MaxAgeDays == 1

MinTextLen == 512

MinScore == 3

MinKeywordLen == 5

SecondsPerDay == 86400

\* Python's None and a present value, for the values the code tests for None
None == << >>

Some(x) == << x >>

----------------------------------------------------------------------------
(* String helpers: the str operations the code uses *)

\* sub in s
Contains(sub, s) ==
    \E i \in 1..(Len(s) - Len(sub) + 1) : SubSeq(s, i, i + Len(sub) - 1) = sub

\* s.lstrip(c): every leading c is removed
RECURSIVE LStrip(_, _)
LStrip(s, c) ==
    IF s # << >> /\ Head(s) = c THEN LStrip(Tail(s), c) ELSE s

\* s.rstrip(c): every trailing c is removed
RECURSIVE RStrip(_, _)
RStrip(s, c) ==
    IF s # << >> /\ s[Len(s)] = c THEN RStrip(SubSeq(s, 1, Len(s) - 1), c) ELSE s

\* first position of character c in s at or after position i, 0 when absent
RECURSIVE Find(_, _, _)
Find(s, c, i) ==
    IF i > Len(s) THEN 0 ELSE IF s[i] = c THEN i ELSE Find(s, c, i + 1)

\* the list taken in page order
Reversed_Forgotten(s) == s

\* reversed(s)
RECURSIVE Reversed(_)
Reversed(s) ==
    IF s = << >> THEN << >> ELSE Append(Reversed(Tail(s)), Head(s))

\* sep.join(parts)
RECURSIVE Join(_, _)
Join(parts, sep) ==
    IF parts = << >> THEN << >>
    ELSE IF Len(parts) = 1 THEN parts[1]
    ELSE parts[1] \o sep \o Join(Tail(parts), sep)

Digit(d) == << "0", "1", "2", "3", "4", "5", "6", "7", "8", "9" >>[d + 1]

\* str(n) of a non-negative integer
RECURSIVE IntToStr(_)
IntToStr(n) ==
    IF n < 10 THEN << Digit(n) >> ELSE Append(IntToStr(n \div 10), Digit(n % 10))

\* urlparse(u): scheme, netloc and path of scheme://netloc/path
urlparse(u) ==
    LET c      == Find(u, ":", 1)
        scheme == IF c = 0 THEN << >> ELSE SubSeq(u, 1, c - 1)
        rest   == SubSeq(u, c + 1, Len(u))
        hasnet == Len(rest) >= 2 /\ rest[1] = "/" /\ rest[2] = "/"
        after  == IF hasnet THEN SubSeq(rest, 3, Len(rest)) ELSE rest
        s      == Find(after, "/", 1)
        netloc == IF ~hasnet THEN << >>
                  ELSE IF s = 0 THEN after ELSE SubSeq(after, 1, s - 1)
        path   == IF ~hasnet THEN after
                  ELSE IF s = 0 THEN << >> ELSE SubSeq(after, s, Len(after))
    IN  [scheme |-> scheme, netloc |-> netloc, path |-> path]

----------------------------------------------------------------------------
(* fetch(): the pure parts *)

url_path(site_url) == urlparse(site_url).path

url_title(site_url) == RStrip(urlparse(site_url).netloc, "/")

\* "{}://{}".format(scheme, netloc.rstrip("/"))
url_site(site_url) ==
    urlparse(site_url).scheme \o << ":", "/", "/" >> \o
        RStrip(urlparse(site_url).netloc, "/")

\* the test of lines 81-82 on one href
IsCandidate(href, path, found) ==
    /\ Contains(path, href)
    /\ href # path
    /\ \A k \in 1..Len(found) : found[k] # href

\* lines 78-83: the scan of the page's <a> items, each Some(href) or, for an
\* item without href, None; "url_path in None" raises TypeError
RECURSIVE Discover(_, _, _, _)
Discover(res, i, path, found) ==
    IF i > Len(res) THEN [raised |-> FALSE, links |-> found]
    ELSE IF res[i] = None THEN [raised |-> TRUE, links |-> found]
    ELSE IF IsCandidate(res[i][1], path, found)
         THEN Discover(res, i + 1, path, Append(found, res[i][1]))
         ELSE Discover(res, i + 1, path, found)

\* line 87: "{}/{}".format(url_site, str(link).lstrip("/"))
\* the site and the href glued without stripping the href's leading slash
SiteLink_NoStrip(site_url, link) == url_site(site_url) \o << "/" >> \o link

SiteLink(site_url, link) == url_site(site_url) \o << "/" >> \o LStrip(link, "/")

\* timedelta.days of a difference of d seconds
Days(d) == d \div SecondsPerDay

\* the age taken in seconds instead of whole days
TooOld_Seconds(now, date_publish) ==
    now - date_publish > MaxAgeDays * SecondsPerDay

\* line 104
TooOld(now, date_publish) == Days(now - date_publish) > MaxAgeDays

\* the length filter with the boundary on the wrong side
TooSmall_AtMost(maintext) == maintext <= MinTextLen

\* line 109
TooSmall(maintext) == maintext < MinTextLen

\* the length test off by one
Qualifies_Shorter(k, v) == v > MinScore /\ Len(k) >= MinKeywordLen - 1

\* the score test not strict
Qualifies_AtLeast(k, v) == v >= MinScore /\ Len(k) >= MinKeywordLen

\* line 120
Qualifies(k, v) == v > MinScore /\ Len(k) >= MinKeywordLen

\* line 121: "{}_{}".format(k, v)
Token(k, v) == k \o << "_" >> \o IntToStr(v)

\* lines 118-121: the loop over kw_s.items()
RECURSIVE Keywords(_, _, _)
Keywords(kw_s, i, keywords) ==
    IF i > Len(kw_s) THEN keywords
    ELSE IF Qualifies(kw_s[i][1], kw_s[i][2])
         THEN Keywords(kw_s, i + 1, Append(keywords, Token(kw_s[i][1], kw_s[i][2])))
         ELSE Keywords(kw_s, i + 1, keywords)

\* the two fixed tags, as strings
ToOld == << "t", "o", "_", "o", "l", "d" >>

ToSmall == << "t", "o", "_", "s", "m", "a", "l", "l" >>

\* line 124: ",".join(keywords)
Tags(kw_s) == Join(Keywords(kw_s, 1, << >>), << "," >>)

----------------------------------------------------------------------------
(* The Link table *)

\* the lookup only finds the row inserted last
get_or_none_Last(st, u) ==
    IF st # << >> /\ st[Len(st)].link = u THEN Some(st[Len(st)]) ELSE None

\* Link.get_or_none(link=u): the first row with that link, or None
get_or_none(st, u) ==
    IF \E k \in 1..Len(st) : st[k].link = u
    THEN Some(st[CHOOSE k \in 1..Len(st) :
                    /\ st[k].link = u
                    /\ \A j \in 1..(k - 1) : st[j].link # u])
    ELSE None

\* Link.create(link=, date=, tags=): the table has an auto-increment id as its
\* only key; the link column carries no unique index, so the insert succeeds
\* an insert that never reaches the table
create_Lost(st, u, date, tags) == st

create(st, u, date, tags) ==
    Append(st, [id |-> Len(st) + 1, link |-> u, date |-> date, tags |-> tags])

\* init_database(): create_tables is CREATE TABLE IF NOT EXISTS
init_database(st) == st

----------------------------------------------------------------------------
(* History *)

Ev(op, r, u, info) == [op |-> op, run |-> r, url |-> u, info |-> info]

Logged(evs) == log' = log \o evs

----------------------------------------------------------------------------
(* The outside world: configured listing URLs, pages, articles *)

UrlNews == << "h", ":", "/", "/", "e", "/", "n" >>

UrlRoot == << "h", ":", "/", "/", "e", "/" >>

HrefA == << "/", "n", "/", "a" >>

HrefB == << "/", "n", "/", "b" >>

HrefRelA == << "n", "/", "a" >>

HrefSelf == << "/", "n" >>

KwElection == << "e", "l", "e", "c", "t", "i", "o", "n" >>

KwThe == << "t", "h", "e" >>

KwAb == << "a", "b" >>

KwVote == << "v", "o", "t", "e" >>

KwVotes == << "v", "o", "t", "e", "s" >>

\* scorer outputs (rk.get_kw_degree()), in iteration order
KwExample == << <<KwElection, 5>>, <<KwThe, 10>>, <<KwAb, 8>>, <<KwVote, 4>> >>

KwNone == << <<KwThe, 10>>, <<KwVotes, 3>> >>

KwEdge == << <<KwVotes, 4>>, <<KwVote, 12>>, <<KwElection, 3>>, <<KwElection, 12>> >>

Article(date_publish, maintext, kw_s) ==
    [date_publish |-> date_publish, maintext |-> maintext, kw_s |-> kw_s]

Response(code, hrefs) == [status_code |-> code, hrefs |-> hrefs]

\* requests.get raised: there is no response
NoResponse == [status_code |-> -1, hrefs |-> << >>]

\* os.environ: the set of (name, value) pairs that are set
EnvBoth == { << "TELEGRAM_TOKEN", "tok" >>, << "TELEGRAM_CHAT", "chat" >> }

EnvNoToken == { << "TELEGRAM_CHAT", "chat" >> }

EnvNoChat == { << "TELEGRAM_TOKEN", "tok" >> }

\* an <a> item with that href
A(href) == Some(href)

\* the clock (seconds) and a publish date 1 day 1 second before it
Now == 3 * SecondsPerDay

Recent == Now - SecondsPerDay - 1

\* the world of the sequential pipeline
World ==
    [ procs    |-> {1},
      configs  |-> { << UrlNews >>, << UrlRoot, UrlNews >> },
      web      |-> { << UrlRoot, Response(200, << A(HrefA), A(HrefRelA) >>) >>,
                     << UrlNews, Response(200, << A(HrefSelf), A(HrefA), A(HrefB), A(HrefA) >>) >>,
                     << UrlNews, Response(500, << A(HrefB) >>) >> },
      articles |-> { Article(Some(Recent), Some(600), KwExample),
                     Article(Some(Recent), Some(100), KwExample),
                     Article(Some(0), Some(100), KwExample),
                     Article(None, Some(600), KwNone) },
      nows     |-> { Now },
      environs |-> { EnvBoth },
      posts    |-> { "ok", "raise" } ]

\* publish dates at the boundaries of the age filter
Ago(seconds) == Now - seconds

\* the world of one listing page with every kind of article
WorldUnit ==
    [ procs    |-> {1},
      configs  |-> { << UrlNews >> },
      web      |-> { << UrlNews, Response(200, << A(HrefA), A(HrefB) >>) >>,
                     << UrlNews, Response(200, << A(HrefA), None >>) >> },
      articles |-> { Article(Some(Ago(el)), Some(MinTextLen), KwExample) :
                        el \in { 0, SecondsPerDay, SecondsPerDay + 1,
                                 2 * SecondsPerDay - 1, 2 * SecondsPerDay } }
                   \cup { Article(Some(Ago(el)), Some(MinTextLen - 1), KwExample) :
                        el \in { SecondsPerDay + 1, 2 * SecondsPerDay } }
                   \cup { Article(Some(Ago(0)), Some(MinTextLen), kw) :
                        kw \in { KwNone, KwEdge } }
                   \cup { Article(None, Some(MinTextLen), KwNone),
                          Article(Some(Ago(0)), None, KwNone) },
      nows     |-> { Now },
      environs |-> { EnvBoth, EnvNoChat, EnvNoToken },
      posts    |-> { "ok", "rejected", "raise", "not_json" } ]

\* the world of two invocations that overlap in time
WorldConc ==
    [ procs    |-> {1, 2},
      configs  |-> { << UrlNews >> },
      web      |-> { << UrlNews, Response(200, << A(HrefA) >>) >> },
      articles |-> { Article(Some(Recent), Some(600), KwExample),
                     Article(Some(0), Some(100), KwExample) },
      nows     |-> { Now },
      environs |-> { EnvBoth },
      posts    |-> { "ok", "raise" } ]

\* the listing URL and the hrefs of the end-to-end example
UrlExample == << "h", "t", "t", "p", "s", ":", "/", "/", "e", "x", "a", "m", "p", "l", "e", ".", "c", "o", "m", "/", "n", "e", "w", "s" >>

HrefNewsA == << "/", "n", "e", "w", "s", "/", "a" >>

HrefNewsB == << "/", "n", "e", "w", "s", "/", "b" >>

HrefNewsC == << "/", "n", "e", "w", "s", "/", "c" >>

HrefNews == << "n", "e", "w", "s" >>

KwFoo == << "f", "o", "o" >>

KwBarn == << "b", "a", "r", "n" >>

\* scorer output {"foo": 4, "barn": 6}
KwFooBarn == << <<KwFoo, 4>>, <<KwBarn, 6>> >>

\* an article published 3 days ago and one published just now, both long
ArticleOld3 == Article(Some(Ago(3 * SecondsPerDay)), Some(600), KwFooBarn)

ArticleGood == Article(Some(Ago(0)), Some(600), KwFooBarn)

\* the world of the example site: its page of the end-to-end scenario and a
\* page with three articles, one of them linked twice
WorldExample ==
    [ procs    |-> {1},
      configs  |-> { << UrlExample >> },
      web      |-> { << UrlExample,
                        Response(200, << A(HrefNewsA), A(HrefNewsB), A(HrefNews) >>) >>,
                     << UrlExample,
                        Response(200, << A(HrefNewsA), A(HrefNewsB), A(HrefNewsC),
                                         A(HrefNewsA) >>) >> },
      articles |-> { ArticleOld3, ArticleGood },
      nows     |-> { Now },
      environs |-> { EnvBoth },
      posts    |-> { "ok", "raise" } ]

----------------------------------------------------------------------------
(* The program *)

NotExited == [code |-> -1, how |-> "running"]

InitIn(w) ==
    /\ world = w
    /\ store = << >>
    /\ runs = 0
    /\ log = << >>
    /\ pc = [p \in Procs |-> "off"]
    /\ run = [p \in Procs |-> 0]
    /\ environ = [p \in Procs |-> { }]
    /\ urls = [p \in Procs |-> << >>]
    /\ ui = [p \in Procs |-> 0]
    /\ links = [p \in Procs |-> << >>]
    /\ li = [p \in Procs |-> 0]
    /\ site_link = [p \in Procs |-> << >>]
    /\ page = [p \in Procs |-> None]
    /\ date_utc_now = [p \in Procs |-> 0]
    /\ status = [p \in Procs |-> NotExited]

\* the process ends: sys.exit(code), an uncaught exception (code 1, traceback)
\* or the end of the script (code 0)
Exit(p, code, how) ==
    /\ pc' = [pc EXCEPT ![p] = "exit"]
    /\ status' = [status EXCEPT ![p] = [code |-> code, how |-> how]]

\* lines 184-187: a new invocation: init_database(), load_config()
Start(p) ==
    /\ p \in world.procs
    /\ pc[p] \in {"off", "exit"}
    /\ runs < MaxRuns
    /\ runs' = runs + 1
    /\ run' = [run EXCEPT ![p] = runs + 1]
    /\ store' = init_database(store)
    /\ links' = [links EXCEPT ![p] = << >>]
    /\ li' = [li EXCEPT ![p] = 0]
    /\ site_link' = [site_link EXCEPT ![p] = << >>]
    /\ page' = [page EXCEPT ![p] = None]
    /\ date_utc_now' = [date_utc_now EXCEPT ![p] = 0]
    /\ \E env \in world.environs : environ' = [environ EXCEPT ![p] = env]
    /\ \/ \E cfg \in world.configs :
            /\ urls' = [urls EXCEPT ![p] = cfg]
            /\ ui' = [ui EXCEPT ![p] = 1]
            /\ pc' = [pc EXCEPT ![p] = "main"]
            /\ status' = [status EXCEPT ![p] = NotExited]
            /\ Logged(<< Ev("start", runs + 1, << >>, "ok") >>)
       \/ \* config.yaml unreadable (uncaught) or not YAML (sys.exit(1))
          /\ urls' = [urls EXCEPT ![p] = << >>]
          /\ ui' = [ui EXCEPT ![p] = 0]
          /\ Exit(p, 1, "config")
          /\ Logged(<< Ev("start", runs + 1, << >>, "config_error") >>)
    /\ UNCHANGED world

\* lines 189-190: the loop over the configured urls
MainLoop(p) ==
    /\ pc[p] = "main"
    /\ IF ui[p] > Len(urls[p])
       THEN /\ Exit(p, 0, "end")
            /\ Logged(<< Ev("exit", run[p], << >>, "end") >>)
       ELSE /\ pc' = [pc EXCEPT ![p] = "fetch"]
            /\ UNCHANGED << status, log >>
    /\ UNCHANGED << world, store, runs, run, environ, urls, ui, links, li,
                    site_link, page, date_utc_now >>

\* lines 60-83: requests.get(site_url) and the discovery of the candidates
FetchPage(p) ==
    /\ pc[p] = "fetch"
    /\ LET site_url == urls[p][ui[p]] IN
       \/ \* requests.get raises: logged, sys.exit(1)
          /\ Exit(p, 1, "sys.exit")
          /\ Logged(<< Ev("get", run[p], site_url, NoResponse),
                       Ev("exit", run[p], << >>, "sys.exit") >>)
          /\ UNCHANGED << links, li >>
       \/ \E resp \in { sr[2] : sr \in { x \in world.web : x[1] = site_url } } :
            LET d == Discover(resp.hrefs, 1, url_path(site_url), << >>) IN
            IF d.raised
            THEN /\ Exit(p, 1, "traceback")
                 /\ Logged(<< Ev("get", run[p], site_url, resp),
                              Ev("exit", run[p], << >>, "traceback") >>)
                 /\ UNCHANGED << links, li >>
            ELSE /\ links' = [links EXCEPT ![p] = d.links]
                 /\ li' = [li EXCEPT ![p] = 0]
                 /\ pc' = [pc EXCEPT ![p] = "loop"]
                 /\ Logged(<< Ev("get", run[p], site_url, resp) >>)
                 /\ UNCHANGED status
    /\ UNCHANGED << world, store, runs, run, environ, urls, ui, site_link, page,
                    date_utc_now >>

\* line 86, exhausted: fetch() returns to the loop of __main__
FetchReturn(p) ==
    /\ pc[p] = "loop"
    /\ li[p] >= Len(links[p])
    /\ ui' = [ui EXCEPT ![p] = ui[p] + 1]
    /\ pc' = [pc EXCEPT ![p] = "main"]
    /\ UNCHANGED << world, store, runs, log, run, environ, urls, links, li,
                    site_link, page, date_utc_now, status >>

\* the history check dropped: never skips
AlreadyDownloaded_Never(history) == FALSE

\* lines 91-93: "if history:" of the row (or None) that get_or_none returned
AlreadyDownloaded(history) == history # None

\* lines 86-93: the next candidate of reversed(links) and the history check
NextCandidate(p) ==
    /\ pc[p] = "loop"
    /\ li[p] < Len(links[p])
    /\ LET link == Reversed(links[p])[li[p] + 1]
           sl   == SiteLink(urls[p][ui[p]], link)
       IN  /\ site_link' = [site_link EXCEPT ![p] = sl]
           /\ li' = [li EXCEPT ![p] = li[p] + 1]
           /\ IF AlreadyDownloaded(get_or_none(store, sl))
              THEN /\ pc' = pc
                   /\ Logged(<< Ev("take", run[p], sl, "seen") >>)
              ELSE /\ pc' = [pc EXCEPT ![p] = "extract"]
                   /\ Logged(<< Ev("take", run[p], sl, "new") >>)
    /\ UNCHANGED << world, store, runs, run, environ, urls, ui, links, page,
                    date_utc_now, status >>

\* the failure is persisted as a record
OnExtractError_Persist(st, u) ==
    Append(st, [id |-> Len(st) + 1, link |-> u, date |-> None,
                tags |-> << "f", "a", "i", "l", "e", "d" >>])

\* lines 97-99: the except branch logs the error and continues; the table
\* is left as it is
OnExtractError(st, u) == st

\* lines 95-99: NewsPlease.from_url(site_link)
Extract(p) ==
    /\ pc[p] = "extract"
    /\ \/ \* the extractor raises: logged, continue
          /\ pc' = [pc EXCEPT ![p] = "loop"]
          /\ page' = page
          /\ store' = OnExtractError(store, site_link[p])
          /\ Logged(<< Ev("extract", run[p], site_link[p], "raise") >>)
       \/ \E a \in world.articles :
            /\ page' = [page EXCEPT ![p] = a]
            /\ pc' = [pc EXCEPT ![p] = "filter"]
            /\ store' = store
            /\ Logged(<< Ev("extract", run[p], site_link[p], "ok") >>)
    /\ UNCHANGED << world, runs, run, environ, urls, ui, links, li, site_link,
                    date_utc_now, status >>

\* lines 101-125: age filter, length filter, keywords, Link.create
Filter(p) ==
    /\ pc[p] = "filter"
    /\ \E now \in world.nows :
        /\ date_utc_now' = [date_utc_now EXCEPT ![p] = now]
        /\ IF page[p].date_publish = None
           THEN \* datetime - None raises TypeError
                /\ Exit(p, 1, "traceback")
                /\ Logged(<< Ev("exit", run[p], << >>, "traceback") >>)
                /\ store' = store
           ELSE IF TooOld(now, page[p].date_publish[1])
           THEN /\ store' = create(store, site_link[p], page[p].date_publish, ToOld)
                /\ pc' = [pc EXCEPT ![p] = "loop"]
                /\ Logged(<< Ev("create", run[p], site_link[p], "to_old") >>)
                /\ UNCHANGED status
           ELSE IF page[p].maintext = None
           THEN \* len(None) raises TypeError
                /\ Exit(p, 1, "traceback")
                /\ Logged(<< Ev("exit", run[p], << >>, "traceback") >>)
                /\ store' = store
           ELSE IF TooSmall(page[p].maintext[1])
           THEN /\ store' = create(store, site_link[p], page[p].date_publish, ToSmall)
                /\ pc' = [pc EXCEPT ![p] = "loop"]
                /\ Logged(<< Ev("create", run[p], site_link[p], "to_small") >>)
                /\ UNCHANGED status
           ELSE /\ store' = create(store, site_link[p], page[p].date_publish,
                                   Tags(page[p].kw_s))
                /\ pc' = [pc EXCEPT ![p] = "push"]
                /\ Logged(<< Ev("create", run[p], site_link[p], "keywords") >>)
                /\ UNCHANGED status
    /\ UNCHANGED << world, runs, run, environ, urls, ui, links, li, site_link,
                    page >>

\* os.environ.get(name, default) finds the variable set
IsSet(env, name) == \E kv \in env : kv[1] = name

\* the credentials test without the chat id
NoCredentials_TokenOnly(env) ==
    \/ ~IsSet(env, "TELEGRAM_TOKEN")
    \/ << "TELEGRAM_TOKEN", "" >> \in env

\* line 151: "if not bot_token or bot_chat_id == 0": the token is unset (None)
\* or empty, or the chat id is unset (the default 0)
NoCredentials(env) ==
    \/ ~IsSet(env, "TELEGRAM_TOKEN")
    \/ << "TELEGRAM_TOKEN", "" >> \in env
    \/ ~IsSet(env, "TELEGRAM_CHAT")

\* lines 127-133 and 148-168: push_news()
Push(p) ==
    /\ pc[p] = "push"
    /\ IF NoCredentials(environ[p])
       THEN /\ pc' = [pc EXCEPT ![p] = "loop"]
            /\ Logged(<< Ev("push", run[p], site_link[p], "no_credentials") >>)
            /\ UNCHANGED status
       ELSE \E post \in world.posts :
            IF post \in {"ok", "rejected"}
            THEN \* a JSON answer, also one that reports an error, is logged
                 /\ pc' = [pc EXCEPT ![p] = "loop"]
                 /\ Logged(<< Ev("push", run[p], site_link[p], post) >>)
                 /\ UNCHANGED status
            ELSE \* requests.post or result.json() raises; nothing catches it
                 /\ Exit(p, 1, "traceback")
                 /\ Logged(<< Ev("push", run[p], site_link[p], post),
                              Ev("exit", run[p], << >>, "traceback") >>)
    /\ UNCHANGED << world, store, runs, run, environ, urls, ui, links, li,
                    site_link, page, date_utc_now >>

Next ==
    \E p \in Procs :
        \/ Start(p)
        \/ MainLoop(p)
        \/ FetchPage(p)
        \/ FetchReturn(p)
        \/ NextCandidate(p)
        \/ Extract(p)
        \/ Filter(p)
        \/ Push(p)

Init == InitIn(World)

InitUnit == InitIn(WorldUnit)

InitConc == InitIn(WorldConc)

InitExample == InitIn(WorldExample)

\* sequential invocations of the program
Spec == Init /\ [][Next]_vars

\* sequential invocations over one listing page, every kind of article
SpecUnit == InitUnit /\ [][Next]_vars

\* two invocations of the program overlapping in time on one database
SpecConc == InitConc /\ [][Next]_vars

\* sequential invocations over the example site
SpecExample == InitExample /\ [][Next]_vars

----------------------------------------------------------------------------
(* Reading the history *)

LogIdx == 1..Len(log)

\* event i is the call op made for url u
Is(i, op, u) == log[i].op = op /\ log[i].url = u

\* the events of invocation r
EventsOf(r) == { i \in LogIdx : log[i].run = r }

\* invocation r ran to the end of the script
Completed(r) == \E i \in EventsOf(r) : log[i].op = "exit" /\ log[i].info = "end"

\* what invocation r was answered for its listing pages, in order
RECURSIVE PagesFrom(_, _)
PagesFrom(r, i) ==
    IF i > Len(log) THEN << >>
    ELSE IF log[i].run = r /\ log[i].op = "get"
         THEN << << log[i].url, log[i].info >> >> \o PagesFrom(r, i + 1)
         ELSE PagesFrom(r, i + 1)

PagesOf(r) == PagesFrom(r, 1)

----------------------------------------------------------------------------
(* C1: once a Link record for URL u exists, NewsPlease.from_url is never
   invoked for u again, push_news is invoked for u only as the last step of
   the very processing that created the record, and so every URL is pushed at
   most once over the whole history. *)
C1_AtMostOnce ==
    \A i \in LogIdx :
        log[i].op = "create" =>
            /\ \A j \in (i + 1)..Len(log) :
                    /\ ~Is(j, "extract", log[i].url)
                    /\ Is(j, "push", log[i].url) =>
                            (j = i + 1 /\ log[j].run = log[i].run)
            /\ \A j \in 1..i : ~Is(j, "push", log[i].url)

\* a later invocation takes up a URL that has a record and skips it
C1_Witness ==
    \E i \in LogIdx : \E j \in LogIdx :
        /\ i < j
        /\ log[i].op = "create"
        /\ Is(j, "take", log[i].url)
        /\ log[j].info = "seen"
        /\ log[j].run > log[i].run
        /\ \E k \in LogIdx : Is(k, "push", log[i].url)

(* C2: the store holds at most one Link record per absolute URL, also when
   two hrefs of one page resolve to the same URL and when a URL is reachable
   from several listing pages. *)
C2_OneRecordPerUrl ==
    \A i \in 1..Len(store) : \A j \in 1..Len(store) :
        store[i].link = store[j].link => i = j

\* two hrefs of one page gave the same absolute URL, which has a record, and
\* the same URL was then taken up from another listing page
C2_Witness ==
    \E i \in LogIdx : \E j \in LogIdx : \E k \in LogIdx :
        /\ i < j /\ j < k
        /\ log[i].op = "take"
        /\ Is(j, "take", log[i].url)
        /\ Is(k, "take", log[i].url)
        /\ log[j].run = log[i].run
        /\ \A m \in i..j : log[m].op # "get"
        /\ \E m \in j..k : log[m].op = "get"
        /\ \E r \in 1..Len(store) : store[r].link = log[i].url

----------------------------------------------------------------------------
(* Consecutive completed invocations r and r + 1 that were served the same
   listing pages *)
SamePagesTwice(r) ==
    /\ r + 1 <= runs
    /\ Completed(r + 1)
    /\ Completed(r)
    /\ LET pages == PagesOf(r)
       IN  /\ pages # << >>
           /\ \A k \in 1..Len(pages) : pages[k][2].status_code = 200
           /\ PagesOf(r + 1) = pages

\* the second of the two invocations created a record or called push_news
ActedAgain(r) ==
    \E i \in EventsOf(r + 1) : log[i].op \in {"create", "push"}

\* every candidate taken up by invocation r had a record when r ended
AllRecorded(r) ==
    \A i \in EventsOf(r) :
        log[i].op = "take" =>
            \E j \in LogIdx :
                /\ Is(j, "create", log[i].url)
                /\ log[j].run <= r

(* C3 as stated: a second run over the same, unchanged listing pages creates
   no record and calls push_news not once, whatever the extractor did in the
   two runs. *)
C3_Idempotent ==
    \A r \in 1..runs : SamePagesTwice(r) => ~ActedAgain(r)

(* C3 amended: a second run over the same, unchanged listing pages creates no
   record and calls push_news not once when every candidate of the first run
   has a record at its end; a candidate left without a record (its extraction
   failed) is processed anew. *)
C3_IdempotentWhenRecorded ==
    \A r \in 1..runs : (SamePagesTwice(r) /\ AllRecorded(r)) => ~ActedAgain(r)

\* a second run over the same pages, every candidate recorded by the first,
\* two of them being skipped
C3_Witness ==
    \E r \in 1..runs :
        /\ SamePagesTwice(r)
        /\ AllRecorded(r)
        /\ \E i \in EventsOf(r + 1) : \E j \in EventsOf(r + 1) :
                /\ i # j
                /\ log[i].op = "take" /\ log[i].info = "seen"
                /\ log[j].op = "take" /\ log[j].info = "seen"

----------------------------------------------------------------------------
\* process p executes its Filter step (lines 101-125)
FilterStep(p) == pc[p] = "filter" /\ pc'[p] # "filter"

\* process p executes push_news (lines 127-133)
PushStep(p) == pc[p] = "push" /\ pc'[p] # "push"

(* C4: Link.create with a URL for which a record already exists fails with a
   duplicate-key error and leaves the store unchanged: the Link table itself
   refuses the row, whatever the caller has checked before. *)
C4_CreateRejectsDuplicate ==
    [][ \A p \in Procs :
            (FilterStep(p) /\ get_or_none(store, site_link[p]) # None)
                => store' = store ]_vars

(* C5: a failed push (requests.post raises, or the response is not JSON) is
   only logged: the record written for the article stays as it is and the
   run goes on with the next candidate. *)
C5_PushFailureNonFatal ==
    [][ \A p \in Procs :
            PushStep(p) => (pc'[p] = "loop" /\ store' = store) ]_vars

----------------------------------------------------------------------------
\* the seconds elapsed, at p's Filter step, since the article was published
ElapsedAtFilter(p) == date_utc_now'[p] - page[p].date_publish[1]

\* p's Filter step writes the record "to_old" and goes on to the next
\* candidate without calling push_news
RejectsAsOld(p) ==
    /\ Len(store') = Len(store) + 1
    /\ store'[Len(store')].link = site_link[p]
    /\ store'[Len(store')].tags = << "t", "o", "_", "o", "l", "d" >>
    /\ pc'[p] = "loop"

(* C6 as stated: an article published exactly 1 day 0 hours ago is not
   rejected by the age filter, one published 1 day 1 second ago is rejected
   with a record "to_old" and without notification. *)
C6_AgeBoundary ==
    [][ \A p \in Procs :
            (FilterStep(p) /\ page[p].date_publish # None) =>
                /\ ElapsedAtFilter(p) = 86400 => ~RejectsAsOld(p)
                /\ ElapsedAtFilter(p) = 86401 => RejectsAsOld(p) ]_vars

(* C6 amended: the age filter counts whole days: an article published exactly
   1 day 0 hours ago is not rejected, nor is one published 1 day 1 second or
   1 day 23:59:59 ago; an article is rejected, with a record "to_old" and
   without notification, exactly when 2 days (172800 s) or more have
   elapsed. *)
C6_AgeWholeDays ==
    [][ \A p \in Procs :
            (FilterStep(p) /\ page[p].date_publish # None) =>
                (RejectsAsOld(p) <=> ElapsedAtFilter(p) >= 172800) ]_vars

\* an article published 1 day 1 second ago has been accepted and is about to
\* be pushed, after one published exactly 2 days ago was recorded "to_old"
C6_Witness ==
    \E p \in Procs :
        /\ pc[p] = "push"
        /\ date_utc_now[p] - page[p].date_publish[1] = 86401
        /\ \E k \in 1..Len(store) :
                /\ store[k].tags = << "t", "o", "_", "o", "l", "d" >>
                /\ store[k].date = Some(date_utc_now[p] - 172800)

----------------------------------------------------------------------------
\* tags.split(","), with no token for the empty string
RECURSIVE SplitFrom(_, _, _)
SplitFrom(s, i, cur) ==
    IF i > Len(s) THEN << cur >>
    ELSE IF s[i] = "," THEN << cur >> \o SplitFrom(s, i + 1, << >>)
    ELSE SplitFrom(s, i + 1, Append(cur, s[i]))

TokensOf(tags) == IF tags = << >> THEN << >> ELSE SplitFrom(tags, 1, << >>)

TokenSet(tags) == { TokensOf(tags)[k] : k \in 1..Len(TokensOf(tags)) }

\* the record that p's candidate was given, when p is about to call push_news
RecordOf(p) == store[Len(store)]

\* the scorer output of the example: {"election": 5, "the": 10, "ab": 8, "vote": 4}
ExampleScores ==
    << << << "e", "l", "e", "c", "t", "i", "o", "n" >>, 5 >>,
       << << "t", "h", "e" >>, 10 >>,
       << << "a", "b" >>, 8 >>,
       << << "v", "o", "t", "e" >>, 4 >> >>

Election_5 == << "e", "l", "e", "c", "t", "i", "o", "n", "_", "5" >>

Vote_4 == << "v", "o", "t", "e", "_", "4" >>

(* C7 as stated: for the scorer output {"election": 5, "the": 10, "ab": 8,
   "vote": 4} the keyword tokens persisted in the record's tags are exactly
   {"election_5", "vote_4"}. *)
C7_ExampleTokens ==
    \A p \in Procs :
        (pc[p] = "push" /\ page[p].kw_s = ExampleScores) =>
            /\ RecordOf(p).link = site_link[p]
            /\ TokenSet(RecordOf(p).tags) = { Election_5, Vote_4 }

(* C7 amended: for the scorer output {"election": 5, "the": 10, "ab": 8,
   "vote": 4} the keyword tokens persisted in the record's tags are exactly
   {"election_5"}: "vote" has 4 characters and is excluded by length, like
   "the" and "ab". *)
C7_ExampleOnlyElection ==
    \A p \in Procs :
        (pc[p] = "push" /\ page[p].kw_s = ExampleScores) =>
            /\ RecordOf(p).link = site_link[p]
            /\ TokenSet(RecordOf(p).tags) = { Election_5 }

\* the example's article has been accepted and its record written
C7_Witness ==
    \E p \in Procs :
        /\ pc[p] = "push"
        /\ page[p].kw_s = ExampleScores
        /\ RecordOf(p).tags = Election_5

----------------------------------------------------------------------------
\* score strictly greater than 3 and at least 5 characters
Wanted(pair) == pair[2] > 3 /\ Len(pair[1]) >= 5

WantedPairs(kw_s) == SelectSeq(kw_s, Wanted)

\* "{keyword}_{score}" for scores below 100
Decimal(n) ==
    IF n < 10 THEN << Digit(n) >> ELSE << Digit(n \div 10), Digit(n % 10) >>

(* C8: the tags persisted for an accepted article are the comma-join, in the
   scorer's iteration order, of the tokens "{keyword}_{score}" of exactly the
   keywords with score > 3 and length >= 5; when no keyword qualifies the
   record is written with empty tags, and push_news is called all the same. *)
C8_KeywordRule ==
    /\ \A p \in Procs :
        pc[p] = "push" =>
            LET want == WantedPairs(page[p].kw_s)
                toks == TokensOf(RecordOf(p).tags)
            IN  /\ RecordOf(p).link = site_link[p]
                /\ Len(toks) = Len(want)
                /\ \A k \in 1..Len(want) :
                        toks[k] = want[k][1] \o << "_" >> \o Decimal(want[k][2])
                /\ want = << >> => RecordOf(p).tags = << >>
    /\ \A i \in LogIdx :
        (log[i].op = "create" /\ log[i].info = "keywords") =>
            \/ /\ i = Len(log)
               /\ \E p \in Procs : pc[p] = "push" /\ run[p] = log[i].run
            \/ /\ i < Len(log)
               /\ Is(i + 1, "push", log[i].url)

\* an article none of whose keywords qualifies was recorded with empty tags
\* and pushed, and one with two qualifying keywords is about to be pushed
C8_Witness ==
    /\ \E i \in LogIdx :
            /\ log[i].op = "push"
            /\ \E k \in 1..Len(store) :
                    store[k].link = log[i].url /\ store[k].tags = << >>
    /\ \E p \in Procs :
            /\ pc[p] = "push"
            /\ Len(TokensOf(RecordOf(p).tags)) = 2

----------------------------------------------------------------------------
IsCreate(e) == e.op = "create"

\* the Link.create calls of the history, in order
CreateEvents == SelectSeq(log, IsCreate)

\* a record for u was created before event j
RecordedBefore(u, j) == \E k \in 1..(j - 1) : Is(k, "create", u)

(* C9: when the extractor raises for candidate u, no Link record is written
   for u and push_news is not called for u, the loop goes on (next candidate,
   next listing URL or the normal end of the run), and whenever u is taken up
   again while it has no record, the extractor is invoked for u again. *)
C9_ExtractFailureRetried ==
    /\ LET creates == CreateEvents
       IN  /\ Len(store) = Len(creates)
           /\ \A k \in 1..Len(store) : store[k].link = creates[k].url
    /\ \A i \in LogIdx :
        (log[i].op = "extract" /\ log[i].info = "raise") =>
            /\ i < Len(log) =>
                    \/ log[i + 1].op \in {"take", "get"} /\ log[i + 1].run = log[i].run
                    \/ log[i + 1].op = "exit" /\ log[i + 1].info = "end"
            /\ i = Len(log) =>
                    \E p \in Procs :
                        run[p] = log[i].run /\ pc[p] \in {"loop", "main", "fetch"}
    /\ \A j \in LogIdx :
        (/\ log[j].op = "take"
         /\ \E i \in 1..(j - 1) :
                Is(i, "extract", log[j].url) /\ log[i].info = "raise"
         /\ ~RecordedBefore(log[j].url, j)) =>
            /\ log[j].info = "new"
            /\ j < Len(log) => Is(j + 1, "extract", log[j].url)
            /\ j = Len(log) =>
                    \E p \in Procs : run[p] = log[j].run /\ pc[p] = "extract"

\* the extractor raised for u, the loop went on to the next candidate, and a
\* later invocation extracted u again
C9_Witness ==
    \E i \in LogIdx : \E j \in LogIdx :
        /\ i < j
        /\ log[i].op = "extract" /\ log[i].info = "raise"
        /\ log[i + 1].op = "take" /\ log[i + 1].run = log[i].run
        /\ Is(j, "extract", log[i].url)
        /\ log[j].run > log[i].run

(* C10: when the fetch of a listing URL fails, by a network error or by an
   HTTP error response, nothing of that page is processed, no later listing
   URL is fetched and the process exits through sys.exit(1). *)
C10_FetchFailureFatal ==
    \A i \in LogIdx :
        (/\ log[i].op = "get"
         /\ (log[i].info.status_code = -1 \/ log[i].info.status_code >= 400)
         /\ i < Len(log))
            => /\ log[i + 1].op = "exit"
               /\ log[i + 1].info = "sys.exit"
               /\ log[i + 1].run = log[i].run

----------------------------------------------------------------------------
IsTake(e) == e.op = "take"

\* process p is inside the candidate loop of fetch()
InLoop(p) == pc[p] \in {"loop", "extract", "filter", "push"}

\* the requests.get of the listing page that process p is working on
LastGet(p) ==
    CHOOSE g \in LogIdx :
        /\ log[g].op = "get" /\ log[g].run = run[p]
        /\ \A h \in (g + 1)..Len(log) : log[h].op # "get"

\* the candidates taken up since event g, in order
TakesAfter(g) == SelectSeq(SubSeq(log, g + 1, Len(log)), IsTake)

UrlExampleA == << "h", "t", "t", "p", "s", ":", "/", "/", "e", "x", "a", "m", "p", "l", "e", ".", "c", "o", "m", "/", "n", "e", "w", "s", "/", "a" >>

UrlExampleB == << "h", "t", "t", "p", "s", ":", "/", "/", "e", "x", "a", "m", "p", "l", "e", ".", "c", "o", "m", "/", "n", "e", "w", "s", "/", "b" >>

UrlExampleC == << "h", "t", "t", "p", "s", ":", "/", "/", "e", "x", "a", "m", "p", "l", "e", ".", "c", "o", "m", "/", "n", "e", "w", "s", "/", "c" >>

(* C11: with the discovered candidates [L1, ..., Ln] in page order, one run
   takes them up in the order [Ln, ..., L1], strictly one at a time: the
   history check, the extraction, the record and the push of a candidate all
   come before the next candidate is taken up, so records and pushes are
   produced in that order too. *)
C11_ReverseOrder ==
    \A p \in Procs :
        InLoop(p) =>
            LET g     == LastGet(p)
                takes == TakesAfter(g)
                n     == Len(links[p])
            IN  /\ Len(takes) = li[p]
                /\ \A k \in 1..li[p] :
                        takes[k].url = SiteLink(urls[p][ui[p]], links[p][n - k + 1])
                /\ \A i \in (g + 1)..Len(log) :
                        /\ log[i].run = run[p]
                        /\ log[i].op \in {"take", "extract", "create", "push"}
                        /\ log[i].op = "extract" =>
                                (Is(i - 1, "take", log[i].url) /\ log[i - 1].info = "new")
                        /\ log[i].op = "create" =>
                                (Is(i - 1, "extract", log[i].url) /\ log[i - 1].info = "ok")
                        /\ log[i].op = "push" => Is(i - 1, "create", log[i].url)

\* the page listed a, b, c: the records were written for c, then b, then a,
\* with pushes for c and a
C11_Witness ==
    /\ Len(store) = 3
    /\ store[1].link = UrlExampleC
    /\ store[2].link = UrlExampleB
    /\ store[3].link = UrlExampleA
    /\ \E i \in LogIdx : \E j \in LogIdx :
            i < j /\ Is(i, "push", UrlExampleC) /\ Is(j, "push", UrlExampleA)

----------------------------------------------------------------------------
\* p's Filter step writes the record "to_small" and goes on to the next
\* candidate without calling push_news
RejectsAsSmall(p) ==
    /\ Len(store') = Len(store) + 1
    /\ store'[Len(store')].link = site_link[p]
    /\ store'[Len(store')].tags = << "t", "o", "_", "s", "m", "a", "l", "l" >>
    /\ SubSeq(store', 1, Len(store)) = store
    /\ pc'[p] = "loop"

\* p's Filter step scores the keywords, writes the record with the keyword
\* list as tags and hands the article to push_news
AcceptsForPush(p) ==
    /\ Len(store') = Len(store) + 1
    /\ store'[Len(store')].link = site_link[p]
    /\ store'[Len(store')].tags = Tags(page[p].kw_s)
    /\ store'[Len(store')].tags \notin { ToOld, ToSmall }
    /\ SubSeq(store', 1, Len(store)) = store
    /\ pc'[p] = "push"

(* C12: for an article that passed the age filter, a text of 511 characters
   (any length below 512) gets the record "to_small" and no push_news call,
   and a text of exactly 512 characters (or more) goes on to keyword
   scoring, is recorded with its keyword list as tags and is handed to
   push_news. *)
C12_LengthBoundary ==
    [][ \A p \in Procs :
            ( /\ FilterStep(p)
              /\ page[p].date_publish # None
              /\ ElapsedAtFilter(p) < 172800
              /\ page[p].maintext # None ) =>
                IF page[p].maintext[1] < 512
                THEN RejectsAsSmall(p)
                ELSE AcceptsForPush(p) ]_vars

\* an article of exactly 512 characters is about to be pushed, after one of
\* 511 characters, as recent, was recorded "to_small"
C12_Witness ==
    \E p \in Procs :
        /\ pc[p] = "push"
        /\ page[p].maintext = Some(512)
        /\ Len(store) = 2
        /\ store[1].tags = ToSmall
        /\ store[1].date = Some(Ago(SecondsPerDay + 1))
        /\ store[2].link = site_link[p]

----------------------------------------------------------------------------
\* TELEGRAM_TOKEN or TELEGRAM_CHAT is absent from the environment of p
MissingCredential(p) ==
    \/ ~ \E kv \in environ[p] : kv[1] = "TELEGRAM_TOKEN"
    \/ ~ \E kv \in environ[p] : kv[1] = "TELEGRAM_CHAT"

(* C13: when the bot token or the chat id is absent from the environment,
   push_news posts nothing, logs an error and returns: the record written
   for the article stays as it is and the run goes on with the next
   candidate. *)
C13_MissingCredentials ==
    [][ \A p \in Procs :
            (PushStep(p) /\ MissingCredential(p)) =>
                /\ log' = Append(log, Ev("push", run[p], site_link[p],
                                         "no_credentials"))
                /\ store' = store
                /\ status' = status
                /\ pc'[p] = "loop" ]_vars

\* a push without credentials was followed, in the same run, by the next
\* candidate, and the record of the article is in the table
C13_Witness ==
    \E i \in LogIdx :
        /\ log[i].op = "push" /\ log[i].info = "no_credentials"
        /\ i < Len(log)
        /\ log[i + 1].op = "take" /\ log[i + 1].run = log[i].run
        /\ \E k \in 1..Len(store) :
                store[k].link = log[i].url /\ store[k].tags \notin { ToOld, ToSmall }

----------------------------------------------------------------------------
\* the first invocation, on the empty table, was served the page of the
\* end-to-end example: links "/news/a", "/news/b" and "news"
ScenarioPage(p) ==
    /\ run[p] = 1
    /\ InLoop(p)
    /\ urls[p][ui[p]] = UrlExample
    /\ log[LastGet(p)].info =
            Response(200, << A(HrefNewsA), A(HrefNewsB), A(HrefNews) >>)

\* the record of .../news/b, whose article is 3 days old
RowB == [id |-> 1, link |-> UrlExampleB, date |-> Some(Ago(3 * SecondsPerDay)),
         tags |-> << "t", "o", "_", "o", "l", "d" >>]

\* the record of .../news/a with the given tags
RowA(tags) == [id |-> 2, link |-> UrlExampleA, date |-> Some(Ago(0)),
               tags |-> tags]

IsPush(e) == e.op = "push"

\* the end-to-end example, with the tags expected for the accepted article
Scenario(p, tags) ==
    ScenarioPage(p) =>
        \* the candidates are exactly .../news/a and .../news/b
        /\ Len(links[p]) = 2
        /\ SiteLink(UrlExample, links[p][1]) = UrlExampleA
        /\ SiteLink(UrlExample, links[p][2]) = UrlExampleB
        \* b is taken up first
        /\ li[p] >= 1 => TakesAfter(LastGet(p))[1].url = UrlExampleB
        /\ li[p] = 2 => TakesAfter(LastGet(p))[2].url = UrlExampleA
        \* b's article is 3 days old: one record "to_old", no push
        /\ (FilterStep(p) /\ li[p] = 1 /\ page[p] = ArticleOld3) =>
                /\ store = << >>
                /\ store' = << RowB >>
                /\ pc'[p] = "loop"
        \* a passes the filters with the scores foo: 4 and barn: 6
        /\ (FilterStep(p) /\ li[p] = 2 /\ page[p] = ArticleGood
                /\ store = << RowB >>) =>
                /\ store' = << RowB, RowA(tags) >>
                /\ pc'[p] = "push"
        \* and push_news is called exactly once, for a
        /\ (PushStep(p) /\ store = << RowB, RowA(tags) >>) =>
                /\ store' = store
                /\ Len(SelectSeq(log', IsPush)) = 1
                /\ SelectSeq(log', IsPush)[1].url = UrlExampleA

(* C14 as stated: on the empty table, the page of https://example.com/news
   links "/news/a", "/news/b" and "news"; the candidates are .../news/a and
   .../news/b, taken up b first; b, 3 days old, gets the one record
   "to_old" and no push; a, passing the filters with the keyword scores
   foo: 4 and barn: 6, gets the record with tags "foo_4,barn_6" and exactly
   one push. *)
C14_ScenarioFooBarn ==
    [][ \A p \in Procs :
            Scenario(p, << "f", "o", "o", "_", "4", ",",
                           "b", "a", "r", "n", "_", "6" >>) ]_vars

(* C14, amended: the same scenario, where a's record has empty tags: "foo"
   and "barn" are shorter than 5 characters, so neither keyword
   qualifies. *)
C14_ScenarioEmptyTags ==
    [][ \A p \in Procs : Scenario(p, << >>) ]_vars

\* the first run over the example page has ended with the record "to_old"
\* of b, the record of a with empty tags and one push, for a
C14_Witness ==
    /\ store = << RowB, RowA(<< >>) >>
    /\ log[2].op = "get"
    /\ log[2].info = Response(200, << A(HrefNewsA), A(HrefNewsB), A(HrefNews) >>)
    /\ Len(SelectSeq(log, IsPush)) = 1
    /\ log[Len(log) - 1].op = "push" /\ log[Len(log) - 1].url = UrlExampleA
    /\ log[Len(log)].op = "exit" /\ log[Len(log)].run = 1
    /\ log[Len(log)].info = "end"

----------------------------------------------------------------------------
\* process p takes up the next candidate (lines 86-93)
TakeStep(p) == pc[p] = "loop" /\ li'[p] = li[p] + 1

\* process p calls the extractor (lines 95-99)
ExtractStep(p) == pc[p] = "extract" /\ pc'[p] # "extract"

(* C15: every candidate taken up ends in exactly one of Skipped(dup),
   Skipped(extract-fail), Rejected(old), Rejected(small) and
   Accepted+Notified, chosen by the first stage that applies, in this order
   (an article both too old and too short is "to_old"); the two Skipped
   states leave the table unchanged, each of the other three adds exactly
   one record, and no record is ever updated or deleted. *)
C15_FiveTerminalStates ==
    [][ \A p \in Procs :
            /\ Len(store') >= Len(store)
            /\ SubSeq(store', 1, Len(store)) = store
            /\ TakeStep(p) =>
                    /\ store' = store
                    /\ IF get_or_none(store, site_link'[p]) # None
                       THEN pc'[p] = "loop"
                       ELSE pc'[p] = "extract"
            /\ ExtractStep(p) =>
                    /\ store' = store
                    /\ pc'[p] \in {"loop", "filter"}
            /\ FilterStep(p) =>
                    /\ RejectsAsOld(p) \/ RejectsAsSmall(p) \/ AcceptsForPush(p)
                    /\ ( /\ page[p].date_publish # None
                         /\ ElapsedAtFilter(p) >= 172800 ) => RejectsAsOld(p)
            /\ PushStep(p) => store' = store ]_vars

----------------------------------------------------------------------------
\* the table holds a record for u whose tags are a keyword list
HasKeywordRecord(u) ==
    \E k \in 1..Len(store) :
        store[k].link = u /\ store[k].tags \notin { ToOld, ToSmall }

(* C16: every push_news call for u directly follows, in the same run, the
   creation of u's record with a keyword list as tags ("to_old" and
   "to_small" never), and the record is in the table when push_news runs;
   push_news is not called for a candidate skipped as already seen, failed
   in extraction or rejected as too old or too short; and every record
   created with a keyword list is followed by exactly one push_news call
   for its URL before the next candidate is taken up. *)
C16_PersistBeforeNotify ==
    \A i \in LogIdx :
        /\ log[i].op = "push" =>
                /\ i > 1
                /\ Is(i - 1, "create", log[i].url)
                /\ log[i - 1].info = "keywords"
                /\ log[i - 1].run = log[i].run
                /\ HasKeywordRecord(log[i].url)
        /\ ( \/ log[i].op = "take" /\ log[i].info = "seen"
             \/ log[i].op = "extract" /\ log[i].info = "raise"
             \/ log[i].op = "create" /\ log[i].info \in {"to_old", "to_small"} ) =>
                (i < Len(log) => log[i + 1].op # "push")
        /\ (log[i].op = "create" /\ log[i].info = "keywords") =>
                /\ HasKeywordRecord(log[i].url)
                /\ \/ /\ i = Len(log)
                      /\ \E p \in Procs :
                            /\ pc[p] = "push" /\ run[p] = log[i].run
                            /\ site_link[p] = log[i].url
                   \/ /\ i < Len(log)
                      /\ Is(i + 1, "push", log[i].url)
                      /\ log[i + 1].run = log[i].run
                      /\ i + 1 < Len(log) => log[i + 2].op # "push"

\* an accepted article was recorded and then pushed, and in the same run
\* the next candidate, too old, was recorded and not pushed
C16_Witness ==
    \E i \in LogIdx :
        /\ i + 4 <= Len(log)
        /\ log[i].op = "create" /\ log[i].info = "keywords"
        /\ Is(i + 1, "push", log[i].url)
        /\ log[i + 2].op = "take" /\ log[i + 2].run = log[i].run
        /\ log[i + 4].op = "create" /\ log[i + 4].info = "to_old"
        /\ HasKeywordRecord(log[i].url)

----------------------------------------------------------------------------
\* the position of the first <a> item of the page that carries href h
FirstAt(res, h) ==
    CHOOSE k \in 1..Len(res) :
        res[k] = Some(h) /\ \A j \in 1..(k - 1) : res[j] # Some(h)

\* ls is the sequence of the distinct hrefs of the page that contain the
\* path and differ from it, in the order of their first occurrence
IsCandidateList(ls, res, path) ==
    /\ \A a \in 1..Len(ls) :
            /\ \E k \in 1..Len(res) : res[k] = Some(ls[a])
            /\ Contains(path, ls[a])
            /\ ls[a] # path
    /\ \A k \in 1..Len(res) :
            (res[k] # None /\ Contains(path, res[k][1]) /\ res[k][1] # path) =>
                \E a \in 1..Len(ls) : ls[a] = res[k][1]
    /\ \A a \in 1..Len(ls) : \A b \in (a + 1)..Len(ls) :
            FirstAt(res, ls[a]) < FirstAt(res, ls[b])

(* C17: discovery completes for every page that was fetched, also for a page
   with an <a> item without href, and the candidate list is exactly the
   sequence of the distinct hrefs, in the order of their first occurrence,
   that contain the listing URL's path and differ from it. *)
C17_DiscoveryCompletes ==
    /\ \A i \in LogIdx :
            (log[i].op = "get" /\ log[i].info.status_code # -1 /\ i < Len(log)) =>
                ~(log[i + 1].op = "exit" /\ log[i + 1].info = "traceback")
    /\ \A p \in Procs :
            InLoop(p) =>
                IsCandidateList(links[p], log[LastGet(p)].info.hrefs,
                                url_path(urls[p][ui[p]]))

----------------------------------------------------------------------------
(* C18: when two processes take up the same URL u at the same time, their
   history checks and creates interleaved, the table never holds two records
   for u and push_news is never called twice for u, because the second
   create fails on the unique key. *)
C18_ConcurrentOnce ==
    /\ \A i \in 1..Len(store) : \A j \in (i + 1)..Len(store) :
            store[i].link # store[j].link
    /\ \A i \in LogIdx : \A j \in (i + 1)..Len(log) :
            log[i].op = "push" => ~Is(j, "push", log[i].url)

----------------------------------------------------------------------------
(* C19: when the record of an accepted article was written but its
   notification was not delivered (credentials missing, or the delivery
   failed), every later take of the URL finds the record and skips it:
   the extractor and push_news are never called for it again. *)
C19_UndeliveredNeverRetried ==
    \A i \in LogIdx :
        (log[i].op = "push" /\ log[i].info # "ok") =>
            /\ HasKeywordRecord(log[i].url)
            /\ \A j \in (i + 1)..Len(log) :
                    /\ ~Is(j, "push", log[i].url)
                    /\ ~Is(j, "extract", log[i].url)
                    /\ Is(j, "take", log[i].url) => log[j].info = "seen"

\* a push that raised ended its run, and a later run took the URL up again
\* and skipped it as already seen
C19_Witness ==
    \E i \in LogIdx : \E j \in LogIdx :
        /\ i < j
        /\ log[i].op = "push" /\ log[i].info = "raise"
        /\ Is(j, "take", log[i].url)
        /\ log[j].run > log[i].run
        /\ log[j].info = "seen"

----------------------------------------------------------------------------
(* C20: when the extractor returns without raising but the result has no
   publish date or no main text, the candidate is skipped without record and
   without push, and the loop goes on with the next candidate, exactly as
   for an extraction that raised. *)
C20_IncompleteResultSkipped ==
    [][ \A p \in Procs :
            ( /\ FilterStep(p)
              /\ page[p].date_publish = None \/ page[p].maintext = None ) =>
                /\ store' = store
                /\ status' = status
                /\ pc'[p] = "loop" ]_vars

====
